---- MODULE Spec2Model ----
(***************************************************************************)
(* Model of the alfred-index-demo search library:                          *)
(*   src/src/search.py  IterFilter (rule cascade) and FTSFilter (sqlite    *)
(*                      FTS index, cached in a file named by a hash)       *)
(*   src/src/fts.py     filter(), the function form of the FTS engine      *)
(*   src/src/text.py    isascii / fold_to_ascii                            *)
(* Strings are sequences of one-character strings.  Floats are exact       *)
(* rationals <<n, d>> with d > 0 in lowest terms.                          *)
(***************************************************************************)
EXTENDS Integers, Sequences, FiniteSets, TLC

VARIABLES
    iterData,      \* IterFilter.data
    iterCache,     \* IterFilter._search_pattern_cache (the cached words)
    iterCall,      \* arguments and results of the last IterFilter.filter call
    fs,            \* the cache directory: location -> index file content
    procs,         \* the processes calling the indexed engine
    ruleCall,      \* arguments and result of the last _filter_item call
    rankCall       \* arguments and result of the last rank call

vars == <<iterData, iterCache, iterCall, fs, procs, ruleCall, rankCall>>

(***************************************************************************)
(* Bounds                                                                  *)
(***************************************************************************)
MaxItems == 2      \* longest dataset
MaxLen == 3        \* longest enumerated value
MaxWeights == 2    \* longest weight vector

(***************************************************************************)
(* Generic helpers                                                         *)
(***************************************************************************)
Range(s) == {s[i] : i \in DOMAIN s}

Min(a, b) == IF a < b THEN a ELSE b

SeqsUpTo(S, n) == UNION {[1..k -> S] : k \in 0..n}

RECURSIVE GCD(_, _)
GCD(a, b) == IF b = 0 THEN a ELSE GCD(b, a % b)

Abs(n) == IF n < 0 THEN -n ELSE n

\* Python floats, as exact rationals
Rat(n, d) ==
    LET s == IF d < 0 THEN -1 ELSE 1
        g == GCD(Abs(n), Abs(d))
    IN  <<(s * n) \div g, (s * d) \div g>>

RInt(n) == <<n, 1>>
RZero == RInt(0)
RAdd(x, y) == Rat(x[1] * y[2] + y[1] * x[2], x[2] * y[2])
RMul(x, y) == Rat(x[1] * y[1], x[2] * y[2])
RDiv(x, y) == Rat(x[1] * y[2], x[2] * y[1])
RLess(x, y) == x[1] * y[2] < y[1] * x[2]
RLeq(x, y) == x[1] * y[2] <= y[1] * x[2]

(***************************************************************************)
(* Characters and strings (python unicode)                                 *)
(***************************************************************************)
Chars ==
    {" ", "-", ",", "A", "B", "I", "K", "a", "b", "c", "e", "i", "k", "l", "m", "n", "t", "u",
     "a~"}   \* "a~" stands for a-acute (non-ASCII)

ord(c) ==
    CASE c = " " -> 32 [] c = "," -> 44 [] c = "-" -> 45
      [] c = "A" -> 65 [] c = "B" -> 66 [] c = "I" -> 73 [] c = "K" -> 75
      [] c = "a" -> 97 [] c = "b" -> 98 [] c = "c" -> 99 [] c = "e" -> 101
      [] c = "i" -> 105 [] c = "k" -> 107
      [] c = "l" -> 108 [] c = "m" -> 109 [] c = "n" -> 110 [] c = "t" -> 116
      [] c = "u" -> 117 [] c = "a~" -> 225

lowerChar(c) ==
    CASE c = "A" -> "a" [] c = "B" -> "b" [] c = "I" -> "i" [] c = "K" -> "k"
      [] OTHER -> c

lower(s) == [i \in DOMAIN s |-> lowerChar(s[i])]

\* string.ascii_uppercase + string.digits
INITIALS == {"A", "B", "I", "K"}

\* the complement of the class [^a-zA-Z0-9]
IsAlnum(c) == ord(c) \in (65..90) \cup (97..122)

IsSpace(c) == c = " "

RECURSIVE lstrip(_)
lstrip(s) == IF s # <<>> /\ IsSpace(Head(s)) THEN lstrip(Tail(s)) ELSE s

RECURSIVE rstrip(_)
rstrip(s) ==
    IF s # <<>> /\ IsSpace(s[Len(s)]) THEN rstrip(SubSeq(s, 1, Len(s) - 1)) ELSE s

strip(s) == rstrip(lstrip(s))

\* pieces of s between the characters of seps, the first one after `cur`;
\* empty pieces are kept
SplitOn(s, seps, cur) ==
    LET cuts == {i \in DOMAIN s : s[i] \in seps}
        n == Cardinality(cuts)
        cut(k) == IF k = 0 THEN 0
                  ELSE IF k = n + 1 THEN Len(s) + 1
                  ELSE CHOOSE p \in cuts : Cardinality({q \in cuts : q < p}) = k - 1
    IN  [k \in 1..(n + 1) |->
            (IF k = 1 THEN cur ELSE <<>>) \o SubSeq(s, cut(k - 1) + 1, cut(k) - 1)]

\* query.split(' ')
split(s) == SplitOn(s, {" "}, <<>>)

\* re.compile('[^a-zA-Z0-9]').split
split_on_delimiters(s) == SplitOn(s, {c \in Chars : ~IsAlnum(c)}, <<>>)

startswith(s, prefix) ==
    /\ Len(prefix) <= Len(s)
    /\ SubSeq(s, 1, Len(prefix)) = prefix

\* sub in s
Contains(s, sub) ==
    \E k \in 0..(Len(s) - Len(sub)) : SubSeq(s, k + 1, k + Len(sub)) = sub

RECURSIVE Flatten(_)
Flatten(ss) == IF ss = <<>> THEN <<>> ELSE Head(ss) \o Flatten(Tail(ss))

RECURSIVE join(_, _)
join(sep, ss) ==
    IF ss = <<>> THEN <<>>
    ELSE IF Len(ss) = 1 THEN ss[1]
    ELSE ss[1] \o sep \o join(sep, Tail(ss))

\* python's < on unicode strings: code points, lexicographic
RECURSIVE StrLess(_, _)
StrLess(s, t) ==
    IF t = <<>> THEN FALSE
    ELSE IF s = <<>> THEN TRUE
    ELSE IF Head(s) # Head(t) THEN ord(Head(s)) < ord(Head(t))
    ELSE StrLess(Tail(s), Tail(t))

\* text.py
isascii(s) == \A i \in DOMAIN s : ord(s[i]) < 128

ASCII_REPLACEMENTS(c) == IF c = "a~" THEN <<"a">> ELSE <<c>>

fold_to_ascii(s) ==
    IF isascii(s) THEN s
    ELSE LET replaced == Flatten([i \in DOMAIN s |-> ASCII_REPLACEMENTS(s[i])])
         IN  SelectSeq(replaced, LAMBDA c : ord(c) < 128)

(***************************************************************************)
(* search.py: match flags                                                  *)
(***************************************************************************)
MATCH_STARTSWITH == 1
MATCH_CAPITALS == 2
MATCH_ATOM == 4
MATCH_INITIALS_STARTSWITH == 8
MATCH_INITIALS_CONTAIN == 16
MATCH_SUBSTRING == 32
MATCH_ALLCHARS == 64
MATCH_ALL == 127

\* python's None, where a rule is expected
None == 0

\* match_on & flag, for a one-bit flag
HasFlag(match_on, flag) == (match_on \div flag) % 2 = 1

\* the caller's key functions: each maps an item to its search key
KeyFns == {"identity", "lower"}

key(k, item) == IF k = "lower" THEN lower(item) ELSE item

(***************************************************************************)
(* search.py: IterFilter                                                   *)
(***************************************************************************)
\* where the pattern '[^c1]*c1[^c2]*c2...' (re.IGNORECASE) ends when matched
\* at position `pos` (0-based) of value, or -1 when it does not match there
RECURSIVE MatchEnd(_, _, _)
MatchEnd(value, query, pos) ==
    IF query = <<>> THEN pos
    ELSE LET hits == {j \in (pos + 1)..Len(value) : lowerChar(value[j]) = Head(query)}
         IN  IF hits = {} THEN -1
             ELSE MatchEnd(value, Tail(query),
                           CHOOSE j \in hits : \A h \in hits : j <= h)

\* self._search_for_query(query)(value): the match span, or None
search(value, query) ==
    LET starts == {s \in 0..Len(value) : MatchEnd(value, query, s) # -1}
    IN  IF starts = {} THEN [found |-> FALSE, start |-> 0, end |-> 0]
        ELSE LET s == CHOOSE x \in starts : \A y \in starts : x <= y
             IN  [found |-> TRUE, start |-> s, end |-> MatchEnd(value, query, s)]

\* the capitals of value (search.py 354-356)
capitals(value) == SelectSeq(value, LAMBDA c : c \in INITIALS)

\* the lower-cased atoms of value (search.py 364-365)
atoms(value) ==
    LET parts == split_on_delimiters(value)
    IN  [i \in DOMAIN parts |-> lower(parts[i])]

\* the first characters of the non-empty atoms (search.py 376-377)
initials(value) ==
    LET full == SelectSeq(atoms(value), LAMBDA a : a # <<>>)
    IN  [i \in DOMAIN full |-> full[i][1]]

\* the score and rule a test of the cascade gives
Hit(n, r) == [score |-> RInt(n), rule |-> r, searched |-> FALSE]

\* the n-th test of the cascade (search.py 349-416), run on the score and
\* rule `cur` the tests before it left: each test is tried only while the
\* score is zero
RuleStep(n, value, query, match_on, cur) ==
    IF cur.score # RZero THEN cur
    ELSE CASE n = 1 ->
                IF HasFlag(match_on, MATCH_STARTSWITH)
                   /\ startswith(lower(value), query)
                THEN Hit(100 - (Len(value) \div Len(query)), MATCH_STARTSWITH)
                ELSE cur
           [] n = 2 ->
                IF HasFlag(match_on, MATCH_CAPITALS)
                   /\ startswith(lower(capitals(value)), query)
                THEN Hit(100 - (Len(capitals(value)) \div Len(query)), MATCH_CAPITALS)
                ELSE cur
           [] n = 3 ->
                IF HasFlag(match_on, MATCH_ATOM) /\ query \in Range(atoms(value))
                THEN Hit(100 - (Len(value) \div Len(query)), MATCH_ATOM)
                ELSE cur
           [] n = 4 ->
                IF HasFlag(match_on, MATCH_INITIALS_STARTSWITH)
                   /\ startswith(initials(value), query)
                THEN Hit(100 - (Len(initials(value)) \div Len(query)),
                         MATCH_INITIALS_STARTSWITH)
                ELSE IF HasFlag(match_on, MATCH_INITIALS_CONTAIN)
                        /\ Contains(initials(value), query)
                THEN Hit(95 - (Len(initials(value)) \div Len(query)),
                         MATCH_INITIALS_CONTAIN)
                ELSE cur
           [] n = 5 ->
                IF HasFlag(match_on, MATCH_SUBSTRING) /\ Contains(lower(value), query)
                THEN Hit(90 - (Len(value) \div Len(query)), MATCH_SUBSTRING)
                ELSE cur
           [] OTHER ->
                IF HasFlag(match_on, MATCH_ALLCHARS)
                THEN LET match == search(value, query)
                     IN  IF match.found
                         THEN [score |-> Rat(100, (1 + match.start)
                                                  * (match.end - match.start + 1)),
                               rule |-> MATCH_ALLCHARS, searched |-> TRUE]
                         ELSE [cur EXCEPT !.searched = TRUE]
                ELSE cur

\* the tests n..6 of the cascade, in the order of the code
RECURSIVE Cascade(_, _, _, _, _)
Cascade(n, value, query, match_on, cur) ==
    IF n > 6 THEN cur
    ELSE Cascade(n + 1, value, query, match_on,
                 RuleStep(n, value, query, match_on, cur))

\* value with the diacritics folded when asked for and the query is ASCII
Folded(value, query, fold_diacritics) ==
    IF fold_diacritics /\ isascii(query) THEN fold_to_ascii(value) ELSE value

\* the end of _filter_item (search.py 416-418): the score and rule when the
\* score is above zero, (0, None) otherwise
Positive(last) ==
    IF RLess(RZero, last.score) THEN last
    ELSE [score |-> RZero, rule |-> None, searched |-> last.searched]

\* the result for a value already folded and a query already lower-cased
FilterFolded(value, query, match_on) ==
    IF ~(Range(query) \subseteq Range(lower(value)))
    THEN [score |-> RZero, rule |-> None, searched |-> FALSE]
    ELSE Positive(Cascade(1, value, query, match_on,
                          [score |-> RZero, rule |-> None, searched |-> FALSE]))

_filter_item(value0, query0, match_on, fold_diacritics0) ==
    FilterFolded(Folded(value0, lower(query0), fold_diacritics0), lower(query0),
                 match_on)

\* the words of a query: [s.strip() for s in query.split(' ')]
Words(query) == LET parts == split(query) IN [i \in DOMAIN parts |-> strip(parts[i])]

\* one turn of the word loop without the skip flag: an item keeps the
\* partial sum of the words that matched
AccumulateNoSkip(acc, sr, word) ==
    [skip |-> FALSE,
     score |-> RAdd(acc.score, sr.score),
     r |-> sr.rule,
     searched |-> acc.searched]

\* one turn of the word loop (search.py 292-297) on the result sr of
\* _filter_item for `word`: skip, the summed score, the rule of the last word
\* tried, the words given to the pattern cache
Accumulate(acc, sr, word) ==
    [skip |-> acc.skip \/ sr.score = RZero,
     score |-> RAdd(acc.score, sr.score),
     r |-> sr.rule,
     searched |-> IF sr.searched THEN acc.searched \cup {lower(word)}
                  ELSE acc.searched]

\* the loop over the words of one item (search.py 289-297)
RECURSIVE ScoreWords(_, _, _, _, _)
ScoreWords(value, words, match_on, fold_diacritics, acc) ==
    IF words = <<>> THEN acc
    ELSE IF Head(words) = <<>>
    THEN ScoreWords(value, Tail(words), match_on, fold_diacritics, acc)
    ELSE ScoreWords(value, Tail(words), match_on, fold_diacritics,
             Accumulate(acc,
                        _filter_item(value, Head(words), match_on, fold_diacritics),
                        Head(words)))

ScoreItem(item, query, k, match_on, fold_diacritics) ==
    ScoreWords(strip(key(k, item)), Words(strip(query)), match_on, fold_diacritics,
               [skip |-> FALSE, score |-> RZero, r |-> None, searched |-> {}])

\* Store with a dict that keeps the first item stored under a key
StoreKeepFirst(results, item, value, sc) ==
    IF value = <<>> \/ sc.skip \/ sc.score = RZero THEN results
    ELSE results @@ (<<RDiv(RInt(100), sc.score), lower(value), sc.score>>
                         :> <<item, sc.score, sc.r>>)

\* the end of one turn of the loop over self.data (search.py 287-307): an
\* item with an empty key, a word that did not match or no score is left
\* out; a later item with the same key replaces an earlier one
Store(results, item, value, sc) ==
    IF value = <<>> \/ sc.skip \/ sc.score = RZero THEN results
    ELSE (<<RDiv(RInt(100), sc.score), lower(value), sc.score>>
              :> <<item, sc.score, sc.r>>) @@ results

\* the results dict after the loop over self.data (search.py 280-307)
RECURSIVE CollectResults(_, _, _, _, _, _)
CollectResults(data, query, k, match_on, fold_diacritics, results) ==
    IF data = <<>> THEN results
    ELSE CollectResults(Tail(data), query, k, match_on, fold_diacritics,
             Store(results, Head(data), strip(key(k, Head(data))),
                   ScoreItem(Head(data), query, k, match_on, fold_diacritics)))

\* python's < on the sort keys (100.0 / score, value.lower(), score)
IterKeyLess(a, b) ==
    IF a[1] # b[1] THEN RLess(a[1], b[1])
    ELSE IF a[2] # b[2] THEN StrLess(a[2], b[2])
    ELSE RLess(a[3], b[3])

RECURSIVE SortIterKeys(_)
SortIterKeys(S) ==
    IF S = {} THEN <<>>
    ELSE LET m == CHOOSE x \in S : \A y \in S : x = y \/ IterKeyLess(x, y)
         IN  <<m>> \o SortIterKeys(S \ {m})

Reverse(s) == [i \in DOMAIN s |-> s[Len(s) + 1 - i]]

\* sorted(keys, reverse=ascending)
SortedIterKeys(S, ascending) ==
    IF ascending THEN Reverse(SortIterKeys(S)) ELSE SortIterKeys(S)

\* results[:max_results] when max_results and len(results) > max_results
Truncate(results, max_results) ==
    IF max_results # 0 /\ Len(results) > max_results
    THEN SubSeq(results, 1, max_results)
    ELSE results

\* [r for r in results if r[1] > min_score] when min_score
AboveMinScore(results, min_score) ==
    IF min_score # 0
    THEN SelectSeq(results, LAMBDA r : RLess(RInt(min_score), r[2]))
    ELSE results

\* search.py 309-317: sort, then max_results, then min_score
IterPostProcess(results, ascending, min_score, max_results) ==
    LET keys == SortedIterKeys(DOMAIN results, ascending)
        sorted == [i \in DOMAIN keys |-> results[keys[i]]]
    IN  AboveMinScore(Truncate(sorted, max_results), min_score)

\* IterFilter.filter with include_score=True: the (item, score, rule) triples
IterFilter_filter(data, query, k, ascending, min_score, max_results, match_on, fold_diacritics) ==
    IterPostProcess(
        CollectResults(data, query, k, match_on, fold_diacritics, <<>>),
        ascending, min_score, max_results)

\* what the call returns: the triples, or the bare items
Project(results, include_score) ==
    IF include_score THEN results ELSE [i \in DOMAIN results |-> results[i][1]]

\* the words the call compiles a pattern for (search.py 409, 420-432)
Searched(data, query, k, match_on, fold_diacritics) ==
    UNION {IF strip(key(k, data[i])) = <<>> THEN {}
           ELSE ScoreItem(data[i], query, k, match_on, fold_diacritics).searched
           : i \in DOMAIN data}

(***************************************************************************)
(* The rule engine as a state machine: an IterFilter instance and its      *)
(* filter calls                                                            *)
(***************************************************************************)
IterItems ==
    { <<"a", "b">>, <<"A", "b">>, <<"b", " ", "a">>, <<" ">>, <<"a~", "b">> }

IterQueries ==
    { <<"a">>, <<"a", " ", "b">>, <<>> }

IterMatchOn ==
    { MATCH_ALL, MATCH_ALLCHARS }

MinScores == {0, 97}

MaxResults == {0, 1}

\* no call of the pure functions yet
NoCall == [called |-> FALSE]

NoIterCall ==
    [called |-> FALSE, query |-> <<>>, key |-> "identity", ascending |-> FALSE,
     include_score |-> FALSE, min_score |-> 0, max_results |-> 0,
     match_on |-> MATCH_ALL, fold_diacritics |-> TRUE,
     results |-> <<>>, returned |-> <<>>]

\* no IterFilter instance
IterUnusedData ==
    /\ iterData = <<>>
    /\ iterCache = {}
    /\ iterCall = NoIterCall

\* One IterFilter.filter(query, key, ascending, include_score, min_score,
\* max_results, match_on, fold_diacritics) call on a fresh instance
IterFilterCall(query, k, ascending, include_score, min_score, max_results, match_on, fold_diacritics) ==
    LET results == IterFilter_filter(iterData, query, k, ascending, min_score,
                                     max_results, match_on, fold_diacritics)
    IN  /\ ~iterCall.called
        /\ iterCall' = [called |-> TRUE, query |-> query, key |-> k,
                        ascending |-> ascending, include_score |-> include_score,
                        min_score |-> min_score, max_results |-> max_results,
                        match_on |-> match_on, fold_diacritics |-> fold_diacritics,
                        results |-> results,
                        returned |-> Project(results, include_score)]
        /\ iterCache' = iterCache
                          \cup Searched(iterData, query, k, match_on, fold_diacritics)
        /\ UNCHANGED <<ruleCall, rankCall, iterData, fs, procs>>

IterDatasets == SeqsUpTo(IterItems, MaxItems)

InitIter ==
    /\ iterData \in IterDatasets
    /\ iterCache = {}
    /\ iterCall = NoIterCall
    /\ fs = <<>>
    /\ procs = <<>>
    /\ ruleCall = NoCall
    /\ rankCall = NoCall

NextIter ==
    \E query \in IterQueries, k \in KeyFns, ascending \in BOOLEAN,
          include_score \in BOOLEAN, min_score \in MinScores,
          max_results \in MaxResults, match_on \in IterMatchOn,
          fold_diacritics \in BOOLEAN :
            IterFilterCall(query, k, ascending, include_score, min_score,
                           max_results, match_on, fold_diacritics)

SpecIter == InitIter /\ [][NextIter]_vars

(***************************************************************************)
(* The rule cascade as a pure function: one _filter_item call              *)
(***************************************************************************)
\* 'Kant, Immanuel'
KantImmanuel ==
    <<"K", "a", "n", "t", ",", " ", "I", "m", "m", "a", "n", "u", "e", "l">>

\* a value more than a hundred times as long as a one-character word
LongValue == [i \in 1..101 |-> "a"]

\* the values filter hands to _filter_item: stripped and not empty
RuleValues ==
    {v \in SeqsUpTo({"a", "b", "A", " "}, MaxLen) : v # <<>> /\ strip(v) = v}
        \cup {KantImmanuel, LongValue, <<"a~", "b">>}

\* the words filter hands to _filter_item: stripped, not empty, no space
RuleWords ==
    { <<"a">>, <<"b">>, <<"a", "b">>, <<"b", "a">>, <<"A">>,
      <<"k", "a", "n", "t">> }

RuleMatchOn ==
    { MATCH_ALL, MATCH_STARTSWITH, MATCH_CAPITALS, MATCH_ATOM,
      MATCH_INITIALS_STARTSWITH, MATCH_INITIALS_CONTAIN, MATCH_SUBSTRING,
      MATCH_ALLCHARS, MATCH_ALL - MATCH_STARTSWITH,
      MATCH_INITIALS_STARTSWITH + MATCH_INITIALS_CONTAIN,
      MATCH_SUBSTRING + MATCH_ALLCHARS }

\* self._filter_item(value, query, match_on, fold_diacritics)
FilterItemCall(value, query, match_on, fold_diacritics) ==
    /\ ~ruleCall.called
    /\ ruleCall' = [called |-> TRUE, value |-> value, query |-> query,
                    match_on |-> match_on, fold_diacritics |-> fold_diacritics,
                    result |-> _filter_item(value, query, match_on, fold_diacritics)]
    /\ UNCHANGED <<rankCall, iterData, iterCache, iterCall, fs, procs>>

InitRule ==
    /\ IterUnusedData
    /\ ruleCall = NoCall
    /\ rankCall = NoCall
    /\ fs = <<>>
    /\ procs = <<>>

NextRule ==
    \E value \in RuleValues, query \in RuleWords, match_on \in RuleMatchOn,
          fold_diacritics \in BOOLEAN :
        FilterItemCall(value, query, match_on, fold_diacritics)

SpecRule == InitRule /\ [][NextRule]_vars

(***************************************************************************)
(* Claims about _filter_item (checked under SpecRule)                      *)
(***************************************************************************)
\* the value and the word of the last call as the tests see them
RuleValue == Folded(ruleCall.value, lower(ruleCall.query), ruleCall.fold_diacritics)

RuleQuery == lower(ruleCall.query)

\* C11: when the STARTSWITH rule fires (the rule is enabled, the lower-cased
\* value starts with the word, and the value is less than a hundred times as
\* long as the word), the score is 100 minus the exact quotient
\* len(value) / len(word), as for 'Kant, Immanuel' and 'kant': 96.5.
C11_StartswithExactQuotient ==
    (/\ ruleCall.called
     /\ HasFlag(ruleCall.match_on, MATCH_STARTSWITH)
     /\ startswith(lower(RuleValue), RuleQuery)
     /\ Len(RuleValue) < 100 * Len(RuleQuery))
        => /\ ruleCall.result.rule = MATCH_STARTSWITH
           /\ ruleCall.result.score =
                  Rat(100 * Len(RuleQuery) - Len(RuleValue), Len(RuleQuery))

\* the rules in the order of the claim: the test of the cascade and the flag
RuleOrder ==
    << <<1, MATCH_STARTSWITH>>, <<2, MATCH_CAPITALS>>, <<3, MATCH_ATOM>>,
       <<4, MATCH_INITIALS_STARTSWITH>>, <<4, MATCH_INITIALS_CONTAIN>>,
       <<5, MATCH_SUBSTRING>>, <<6, MATCH_ALLCHARS>> >>

\* what rule r gives on its own for the last call's value and word
RuleAlone(r) ==
    RuleStep(RuleOrder[r][1], RuleValue, RuleQuery, RuleOrder[r][2],
             [score |-> RZero, rule |-> None, searched |-> FALSE])

\* the rules that are enabled and give a positive score
RulesThatFire ==
    {r \in DOMAIN RuleOrder :
        /\ HasFlag(ruleCall.match_on, RuleOrder[r][2])
        /\ RLess(RZero, RuleAlone(r).score)}

\* C12: _filter_item returns the score and label of the first rule, in the
\* order STARTSWITH, CAPITALS, ATOM, INITIALS_STARTSWITH, INITIALS_CONTAIN,
\* SUBSTRING, ALLCHARS, that is enabled and gives a positive score, and
\* (0, None) only when no enabled rule gives a positive score.
C12_FirstPositiveRuleWins ==
    ruleCall.called =>
        IF RulesThatFire = {}
        THEN ruleCall.result.score = RZero /\ ruleCall.result.rule = None
        ELSE LET first == CHOOSE r \in RulesThatFire : \A q \in RulesThatFire : r <= q
             IN  /\ ruleCall.result.score = RuleAlone(first).score
                 /\ ruleCall.result.rule = RuleOrder[first][2]

(***************************************************************************)
(* Claims about IterFilter.filter (checked under SpecIter)                 *)
(***************************************************************************)
\* the search key of item i of the instance, as the last call extracted it
IterValue(i) == strip(key(iterCall.key, iterData[i]))

\* the non-empty words of the last call's query
IterWords == SelectSeq(Words(strip(iterCall.query)), LAMBDA w : w # <<>>)

\* the score the rule cascade gives word w against item i
WordScore(i, w) ==
    _filter_item(IterValue(i), w, iterCall.match_on, iterCall.fold_diacritics).score

RECURSIVE SumScores(_, _)
SumScores(i, words) ==
    IF words = <<>> THEN RZero
    ELSE RAdd(WordScore(i, Head(words)), SumScores(i, Tail(words)))

AllWordsMatch(i) == \A n \in DOMAIN IterWords : WordScore(i, IterWords[n]) # RZero

\* the sorted match list of the last call, before min_score and max_results
IterSortedMatches ==
    IterFilter_filter(iterData, iterCall.query, iterCall.key, iterCall.ascending,
                      0, 0, iterCall.match_on, iterCall.fold_diacritics)

\* C6: IterFilter.filter applies min_score before max_results: the output is
\* the sorted match list without the entries of score <= min_score, then cut
\* to its first max_results entries.
C6_MinScoreBeforeMaxResults ==
    iterCall.called =>
        iterCall.results =
            Truncate(AboveMinScore(IterSortedMatches, iterCall.min_score),
                     iterCall.max_results)

\* C7: an item is in the output of IterFilter.filter only if every non-empty
\* query word scores above zero against its key, its score is then the sum of
\* the per-word scores, and an item with a word that scores zero is absent.
C7_AllWordsMustMatch ==
    iterCall.called =>
        /\ \A n \in DOMAIN iterCall.results :
              \E i \in DOMAIN iterData :
                /\ iterData[i] = iterCall.results[n][1]
                /\ AllWordsMatch(i)
                /\ iterCall.results[n][2] = SumScores(i, IterWords)
        /\ \A i \in DOMAIN iterData :
              ~AllWordsMatch(i) =>
                  \A n \in DOMAIN iterCall.results :
                      iterCall.results[n][1] # iterData[i]

\* C7 witness: a two-word query, one item returned with its summed score and
\* another item, matching only one of the two words, left out.
C7_Witness ==
    /\ iterCall.called
    /\ Len(IterWords) = 2
    /\ iterCall.results # <<>>
    /\ \E i \in DOMAIN iterData :
          /\ ~AllWordsMatch(i)
          /\ \E n \in DOMAIN IterWords : WordScore(i, IterWords[n]) # RZero
          /\ IterValue(i) # <<>>

\* the lower-cased search key of a returned item
LowerKeyOf(item) == lower(strip(key(iterCall.key, item)))

\* C8: the output of IterFilter.filter is ordered by score (non-increasing
\* when ascending is false, non-decreasing when it is true) and, for either
\* value of the flag, results of equal score are in alphabetical order of
\* their lower-cased search key.
C8_OrderedWithAlphabeticalTies ==
    iterCall.called =>
        \A m, n \in DOMAIN iterCall.results :
            m < n =>
                LET a == iterCall.results[m]
                    b == iterCall.results[n]
                IN  /\ iterCall.ascending => RLeq(a[2], b[2])
                    /\ ~iterCall.ascending => RLeq(b[2], a[2])
                    /\ a[2] = b[2] => ~StrLess(LowerKeyOf(b[1]), LowerKeyOf(a[1]))

\* item i matches the last call's query: it has a search key, and every word
\* of a query that has words scores against it
Matching(i) == IterValue(i) # <<>> /\ IterWords # <<>> /\ AllWordsMatch(i)

MatchingItems == {i \in DOMAIN iterData : Matching(i)}

\* (total score, lower-cased search key) of item i
PairOf(i) == <<SumScores(i, IterWords), lower(IterValue(i))>>

\* C15: IterFilter.filter keeps one result per (total score, lower-cased
\* search key) pair: before truncation the output has as many entries as the
\* matching items have distinct pairs, and the entry of a pair is the last
\* matching item, in input order, that has it.
C15_OneResultPerScoreAndLowerKey ==
    (iterCall.called /\ iterCall.min_score = 0 /\ iterCall.max_results = 0) =>
        LET matching == MatchingItems
            pair == [i \in matching |-> PairOf(i)]
            last == [i \in matching |->
                        CHOOSE j \in matching :
                            /\ pair[j] = pair[i]
                            /\ \A h \in matching : pair[h] = pair[i] => h <= j]
        IN  /\ Len(iterCall.results) = Cardinality({pair[i] : i \in matching})
            /\ \A i \in matching :
                  \E n \in DOMAIN iterCall.results :
                      /\ iterCall.results[n][1] = iterData[last[i]]
                      /\ iterCall.results[n][2] = pair[i][1]
            /\ \A n \in DOMAIN iterCall.results :
                  \E i \in matching : iterCall.results[n][1] = iterData[last[i]]

\* C15 witness: two distinct matching items with one pair, and an output of
\* fewer entries than matching items that holds only the later of the two.
C15_Witness ==
    /\ iterCall.called /\ iterCall.min_score = 0 /\ iterCall.max_results = 0
    /\ \E i, j \in MatchingItems :
          /\ i < j
          /\ iterData[i] # iterData[j]
          /\ PairOf(i) = PairOf(j)
          /\ \E n \in DOMAIN iterCall.results : iterCall.results[n][1] = iterData[j]
          /\ \A n \in DOMAIN iterCall.results : iterCall.results[n][1] # iterData[i]
    /\ Len(iterCall.results) < Cardinality(MatchingItems)

(***************************************************************************)
(* fts.py: match flags of the function form                                *)
(***************************************************************************)
fts_MATCH_STARTSWITH == 1
fts_MATCH_ATOM == 2
fts_MATCH_SUBSTRING == 4
fts_MATCH_ALL == 7

(***************************************************************************)
(* The index cache: search.py _memoize_database, fts.py 25-31              *)
(***************************************************************************)
\* hash() of a unicode string
RECURSIVE StrHash(_)
StrHash(s) == IF s = <<>> THEN 7 ELSE (31 * StrHash(Tail(s)) + ord(Head(s))) % 65536

\* hash() of a frozenset: a commutative combination of the members' hashes
RECURSIVE SetHash(_)
SetHash(S) ==
    IF S = {} THEN 1927
    ELSE LET e == CHOOSE x \in S : TRUE
         IN  (SetHash(S \ {e}) + 89 * StrHash(e) + 3) % 65536

\* hash() of the sequence itself, order and duplicates included
RECURSIVE SeqHash(_)
SeqHash(data) ==
    IF data = <<>> THEN 1927
    ELSE (31 * SeqHash(Tail(data)) + 89 * StrHash(Head(data)) + 3) % 65536

\* a location computed from the list as given, not from the set of its items
_memoize_database_of_list(data) == SeqHash(data)

\* the location of the index of a dataset: '.' + str(hash(frozenset(data))) + '.db'
\* in the workflow directory, here the hash itself
_memoize_database(data) == SetHash(Range(data))

\* os.path.exists(database) answering False whatever is on disk
existsNever(files, database) == FALSE

\* os.path.exists(database)
exists(files, database) == database \in DOMAIN files

\* the rows the builder inserts: (i, key(item).strip()) for the items whose
\* key is not empty (search.py 132-139, fts.py 45-52)
IndexRow(data, k, i) == <<i - 1, strip(key(k, data[i]))>>

IndexRows(data, k) ==
    {IndexRow(data, k, i) : i \in {j \in DOMAIN data : strip(key(k, data[j])) # <<>>}}

(***************************************************************************)
(* The relevance statistics: make_rank_func                                *)
(***************************************************************************)
\* struct.pack of 4-byte unsigned integers, low byte first
RECURSIVE Pack(_)
Pack(ints) ==
    IF ints = <<>> THEN <<>>
    ELSE LET v == Head(ints)
         IN  <<v % 256, (v \div 256) % 256, (v \div 65536) % 256,
               (v \div 16777216) % 256>> \o Pack(Tail(ints))

\* [struct.unpack('I', matchinfo[i:i + 4])[0] for i in range(0, bufsize, 4)]
Unpack(matchinfo) ==
    [n \in 1..(Len(matchinfo) \div 4) |->
        matchinfo[4 * n - 3] + 256 * matchinfo[4 * n - 2]
        + 65536 * matchinfo[4 * n - 1] + 16777216 * matchinfo[4 * n]]

\* a weight: python int n, or float n.0
IntW(n) == [n |-> n, float |-> FALSE]
FloatW(n) == [n |-> n, float |-> TRUE]

\* the weights both engines pass: (0, 1.0)
DefaultWeights == <<IntW(0), FloatW(1)>>

\* x[0] * w / x[1]: python 2 floors when all three are ints
RankTerm(x0, x1, w) ==
    IF w.float THEN Rat(x0 * w.n, x1) ELSE RInt((x0 * w.n) \div x1)

RECURSIVE RankSum(_, _, _)
RankSum(ints, weights, c) ==
    IF c > Min(Len(ints) \div 3, Len(weights)) THEN RZero
    ELSE LET x0 == ints[3 * c - 2]
             x1 == ints[3 * c - 1]
             rest == RankSum(ints, weights, c + 1)
         IN  IF x1 # 0 THEN RAdd(RankTerm(x0, x1, weights[c]), rest) ELSE rest

\* rank reading the triples from the first integer on, the header kept
rankKeepHeader(matchinfo, weights) == RankSum(Unpack(matchinfo), weights, 1)

\* make_rank_func(weights)(matchinfo)
rank(matchinfo, weights) ==
    LET ints == Unpack(matchinfo)
    IN  RankSum(SubSeq(ints, 3, Len(ints)), weights, 1)

\* statistics the provider may attach to a row (header p, c; one triple per
\* column id, data): a hit in the id column only; one of two hits in data
StatsIdOnly == Pack(<<1, 2, 1, 1, 2, 0, 0, 2>>)
StatsHalf == Pack(<<1, 2, 0, 0, 2, 1, 2, 2>>)
StatsPool == {StatsIdOnly, StatsHalf}

(***************************************************************************)
(* rank as a pure function: one call of make_rank_func(weights)(matchinfo) *)
(***************************************************************************)
\* (hits_in_row, hits_in_all_rows, total_rows) of one column
RankTriples == {<<x0, x1, 2>> : x0 \in {0, 1, 3, 300}, x1 \in {0, 1, 2}}

\* the integers of a blob: the header (phrases, columns), then the triples
RankInts ==
    {<<1, 1>> \o t : t \in RankTriples}
        \cup {<<1, 2>> \o t \o u : t \in RankTriples, u \in RankTriples}

RankWeight == {IntW(0), IntW(1), IntW(3), FloatW(1), FloatW(2)}

RankWeights == UNION {[1..k -> RankWeight] : k \in 1..MaxWeights}

RankCall(ints, weights) ==
    /\ ~rankCall.called
    /\ rankCall' = [called |-> TRUE, ints |-> ints, weights |-> weights,
                    result |-> rank(Pack(ints), weights)]
    /\ UNCHANGED <<ruleCall, iterData, iterCache, iterCall, fs, procs>>

InitRank ==
    /\ IterUnusedData
    /\ ruleCall = NoCall
    /\ rankCall = NoCall
    /\ fs = <<>>
    /\ procs = <<>>

NextRank == \E ints \in RankInts, weights \in RankWeights : RankCall(ints, weights)

SpecRank == InitRank /\ [][NextRank]_vars

(***************************************************************************)
(* Claims about rank (checked under SpecRank)                              *)
(***************************************************************************)
\* the columns of the last call that have both a triple and a weight
RankColumns ==
    1..Min((Len(rankCall.ints) - 2) \div 3, Len(rankCall.weights))

HitsInRow(c) == rankCall.ints[3 * c]

HitsInAllRows(c) == rankCall.ints[3 * c + 1]

\* the sum of term(c) over the columns 1..c whose hits_in_all_rows is not zero
RECURSIVE C13_ExactSum(_)
C13_ExactSum(c) ==
    IF c = 0 THEN RZero
    ELSE IF HitsInAllRows(c) = 0 THEN C13_ExactSum(c - 1)
    ELSE RAdd(C13_ExactSum(c - 1),
              Rat(HitsInRow(c) * rankCall.weights[c].n, HitsInAllRows(c)))

RECURSIVE C13_PythonSum(_)
C13_PythonSum(c) ==
    IF c = 0 THEN RZero
    ELSE IF HitsInAllRows(c) = 0 THEN C13_PythonSum(c - 1)
    ELSE RAdd(C13_PythonSum(c - 1),
              IF rankCall.weights[c].float
              THEN Rat(HitsInRow(c) * rankCall.weights[c].n, HitsInAllRows(c))
              ELSE RInt((HitsInRow(c) * rankCall.weights[c].n) \div HitsInAllRows(c)))

\* C13 (as stated): for any blob and any weight vector rank returns the sum
\* of hits_in_row * weight / hits_in_all_rows over the columns whose
\* hits_in_all_rows is not zero, the first two integers dropped.
C13_RankIsExactSum ==
    rankCall.called => rankCall.result = C13_ExactSum(Cardinality(RankColumns))

\* C13 (amended): rank drops the first two integers, pairs the triples with
\* the weights in order, skips the columns whose hits_in_all_rows is zero,
\* and adds hits_in_row * weight / hits_in_all_rows for a float weight and
\* the floor of that quotient for an integer weight.
C13_RankFloorsIntegerWeights ==
    rankCall.called => rankCall.result = C13_PythonSum(Cardinality(RankColumns))

\* C13 witness: a call with two columns, one with hits_in_all_rows zero and
\* skipped, one with an integer weight whose quotient is not whole.
C13_Witness ==
    /\ rankCall.called
    /\ Cardinality(RankColumns) = 2
    /\ \E c \in RankColumns : HitsInAllRows(c) = 0 /\ HitsInRow(c) # 0
    /\ \E c \in RankColumns :
          /\ HitsInAllRows(c) # 0
          /\ ~rankCall.weights[c].float
          /\ (HitsInRow(c) * rankCall.weights[c].n) % HitsInAllRows(c) # 0
    /\ rankCall.result = C13_PythonSum(2)
    /\ rankCall.result # C13_ExactSum(2)

(***************************************************************************)
(* The indexed engine: FTSFilter.filter (search.py) and filter (fts.py)    *)
(***************************************************************************)
\* the strategies in the order the code tries them, as the flags of each form
Strategies(impl) ==
    IF impl = "FTSFilter"
    THEN <<MATCH_SUBSTRING, MATCH_STARTSWITH, MATCH_ATOM>>
    ELSE <<fts_MATCH_SUBSTRING, fts_MATCH_STARTSWITH, fts_MATCH_ATOM>>

\* the MATCH argument of each strategy (search.py 79, 84, 89; fts.py 76, 82, 88)
StrategyQuery(n, words) ==
    IF n = 1 THEN join(<<" ">>, [i \in DOMAIN words |-> words[i] \o <<"*">>])
    ELSE IF n = 2 THEN <<"^">> \o join(<<" ">>, words)
    ELSE join(<<" ">>, words)

\* a SQL string with one replacement field, and str.format on it: a string
\* whose field is already filled is returned unchanged
Template == [filled |-> FALSE, text |-> <<>>]

Format(sql, arg) == IF sql.filled THEN sql ELSE [filled |-> TRUE, text |-> arg]

\* the strategy the call tries next: the first enabled one from `stage` on,
\* or 0 when none is left
NextStrategy(pr) ==
    LET left == {n \in pr.stage..3 : HasFlag(pr.match_on, Strategies(pr.impl)[n])}
    IN  IF left = {} THEN 0 ELSE CHOOSE n \in left : \A m \in left : n <= m

\* python's < on the keys (score, id)
FtsKeyLess(a, b) == IF a[1] # b[1] THEN RLess(a[1], b[1]) ELSE a[2] < b[2]

RECURSIVE SortFtsKeys(_)
SortFtsKeys(S) ==
    IF S = {} THEN <<>>
    ELSE LET m == CHOOSE x \in S : \A y \in S : x = y \/ FtsKeyLess(x, y)
         IN  <<m>> \o SortFtsKeys(S \ {m})

\* sorted(results.keys(), reverse=ascending)
SortedFtsKeys(S, ascending) ==
    IF ascending THEN Reverse(SortFtsKeys(S)) ELSE SortFtsKeys(S)

\* the rows of one answer, ORDER BY score DESC: (id, score, data), the score
\* being rank(matchinfo(filter)); resp maps the matching rows to their statistics
AnswerRows(resp) ==
    LET scored == {<<rank(resp[r], DefaultWeights), r[1]>> : r \in DOMAIN resp}
        keys == Reverse(SortFtsKeys(scored))
    IN  [n \in DOMAIN keys |->
            LET r == CHOOSE x \in DOMAIN resp : x[1] = keys[n][2]
            IN  <<r[1], keys[n][1], r[2]>>]

\* list(m) + [flag] for m in matches
Tagged(rows, flag) == [n \in DOMAIN rows |-> rows[n] \o <<flag>>]

\* results[(score, id)] = (data, score * scale, flag) for the rows in order
RECURSIVE MergeRows(_, _, _)
MergeRows(results, rows, scale) ==
    IF rows = <<>> THEN results
    ELSE LET m == Head(rows)
         IN  MergeRows((<<m[2], m[1]>> :> <<m[3], RMul(m[2], RInt(scale)), m[4]>>)
                           @@ results,
                       Tail(rows), scale)

\* the answers the provider may give over the rows it can see
Responses(visible, pool, subsets) ==
    UNION {[S -> pool] : S \in (IF subsets THEN SUBSET visible ELSE {visible})}

\* an INSERT that is committed at once
InsertRowAutocommit(file, pending, row) ==
    [file |-> [file EXCEPT !.rows = @ \cup {row}], pending |-> pending]

\* a row put in the table by the builder's INSERT: it joins the open
\* transaction, and the file gets it at commit
InsertRow(file, pending, row) == [file |-> file, pending |-> pending \cup {row}]

NewProc(data) ==
    [pc |-> "idle", data |-> data, impl |-> "FTSFilter", query |-> <<>>,
     key |-> "identity", match_on |-> 0, ascending |-> TRUE, max_results |-> 0,
     include_score |-> FALSE, database |-> 0, i |-> 0, pending |-> {},
     stage |-> 1, sql_query |-> Template, matched |-> <<>>, dict |-> <<>>,
     results |-> <<>>,
     memo |-> {}, sent |-> <<>>, keys |-> <<>>, output |-> <<>>,
     called |-> FALSE, returned |-> FALSE, error |-> "", built |-> {}, reused |-> {},
     rebuilt |-> FALSE, partial |-> {}]

\* filter(query, key, include_score, max_results, ascending, match_on) is
\* called: the index location is computed (search.py 59, fts.py 26-31)
Call(p, a) ==
    /\ procs[p].pc \in {"idle", "raised"}
    /\ procs' = [procs EXCEPT ![p] =
            [NewProc(procs[p].data) EXCEPT
                !.pc = "exists", !.called = TRUE, !.impl = a.impl, !.query = a.query, !.key = a.key,
                !.match_on = a.match_on, !.ascending = a.ascending,
                !.max_results = a.max_results, !.include_score = a.include_score,
                !.database = _memoize_database(procs[p].data),
                !.built = procs[p].built, !.reused = procs[p].reused,
                !.rebuilt = procs[p].rebuilt, !.partial = procs[p].partial]]
    /\ UNCHANGED <<ruleCall, rankCall, iterData, iterCache, iterCall, fs>>

\* if not os.path.exists(database): run the builder (search.py 61-62, fts.py 33)
CheckExists(p) ==
    LET pr == procs[p]
    IN  /\ pr.pc = "exists"
        /\ procs' = [procs EXCEPT ![p] =
                IF exists(fs, pr.database)
                THEN [pr EXCEPT !.pc = "query", !.reused = @ \cup {pr.database}]
                ELSE [pr EXCEPT !.pc = "connect",
                                !.rebuilt = @ \/ pr.database \in pr.built,
                                !.built = @ \cup {pr.database}]]
        /\ UNCHANGED <<ruleCall, rankCall, iterData, iterCache, iterCall, fs>>

\* the builder's sqlite3.connect(database): the file is there from now on
BuildConnect(p) ==
    LET pr == procs[p]
    IN  /\ pr.pc = "connect"
        /\ fs' = IF pr.database \in DOMAIN fs THEN fs
                 ELSE (pr.database :> [table |-> FALSE, rows |-> {}]) @@ fs
        /\ procs' = [procs EXCEPT ![p].pc = "create"]
        /\ UNCHANGED <<ruleCall, rankCall, iterData, iterCache, iterCall>>

\* CREATE VIRTUAL TABLE filter: an error when the table is there already, and
\* nothing in the builder or in filter catches it
BuildCreate(p) ==
    LET pr == procs[p]
    IN  /\ pr.pc = "create"
        /\ IF fs[pr.database].table
           THEN /\ procs' = [procs EXCEPT ![p].pc = "raised",
                                          ![p].error = "table filter already exists"]
                /\ fs' = fs
           ELSE /\ procs' = [procs EXCEPT ![p].pc = "insert", ![p].i = 1]
                /\ fs' = [fs EXCEPT ![pr.database].table = TRUE]
        /\ UNCHANGED <<ruleCall, rankCall, iterData, iterCache, iterCall>>

\* one turn of the loop over the items: INSERT OR IGNORE of (i, value), the
\* items with an empty key skipped
BuildInsert(p) ==
    LET pr == procs[p]
        value == strip(key(pr.key, pr.data[pr.i]))
        ins == InsertRow(fs[pr.database], pr.pending, IndexRow(pr.data, pr.key, pr.i))
    IN  /\ pr.pc = "insert"
        /\ pr.i <= Len(pr.data)
        /\ IF value = <<>>
           THEN /\ procs' = [procs EXCEPT ![p].i = pr.i + 1]
                /\ fs' = fs
           ELSE /\ procs' = [procs EXCEPT ![p].i = pr.i + 1, ![p].pending = ins.pending]
                /\ fs' = [fs EXCEPT ![pr.database] = ins.file]
        /\ UNCHANGED <<ruleCall, rankCall, iterData, iterCache, iterCall>>

\* the end of the builder's `with con:` block: the transaction is committed
BuildCommit(p) ==
    LET pr == procs[p]
    IN  /\ pr.pc = "insert"
        /\ pr.i > Len(pr.data)
        /\ fs' = [fs EXCEPT ![pr.database].rows = @ \cup pr.pending]
        /\ procs' = [procs EXCEPT ![p].pc = "query", ![p].pending = {}]
        /\ UNCHANGED <<ruleCall, rankCall, iterData, iterCache, iterCall>>

\* the processes that have created the table of `database` and not yet
\* committed its rows
Building(database, p) ==
    {q \in DOMAIN procs \ {p} :
        procs[q].pc = "insert" /\ procs[q].database = database}

\* the query of the next enabled strategy is sent and its rows are taken
\* (search.py 78-92, fts.py 75-92).  The provider answers from `pool` over
\* the committed rows, and answers the same text the same way while the rows
\* are the same.
QueryStep(p, pool, subsets) ==
    LET pr == procs[p]
        n == NextStrategy(pr)
        flag == Strategies(pr.impl)[n]
        arg == StrategyQuery(n, Words(pr.query))
        sql == IF pr.impl = "FTSFilter" THEN Format(Template, arg)
               ELSE Format(pr.sql_query, arg)
        visible == fs[pr.database].rows
    IN  /\ pr.pc = "query"
        /\ n # 0
        /\ IF ~fs[pr.database].table
           THEN procs' = [procs EXCEPT ![p].pc = "raised",
                                      ![p].error = "no such table: filter"]
           ELSE \E resp \in Responses(visible, pool, subsets) :
                  /\ \A m \in pr.memo :
                        (m[1] = sql.text /\ m[2] = visible) => m[3] = resp
                  /\ procs' = [procs EXCEPT ![p] =
                        [pr EXCEPT
                            !.stage = n + 1,
                            !.sql_query = IF pr.impl = "FTSFilter" THEN @ ELSE sql,
                            !.sent = Append(@, sql.text),
                            !.memo = @ \cup {<<sql.text, visible, resp>>},
                            !.matched = @ \o Tagged(AnswerRows(resp), flag),
                            !.dict =
                                IF pr.impl = "FTSFilter" THEN @
                                ELSE MergeRows(@, Tagged(AnswerRows(resp), flag), 100),
                            !.partial =
                                @ \cup {[seen |-> visible,
                                         full |-> IndexRows(procs[q].data, procs[q].key)]
                                        : q \in Building(pr.database, p)}]]
        /\ UNCHANGED <<ruleCall, rankCall, iterData, iterCache, iterCall, fs>>

\* the tail of filter: the dict of FTSFilter is filled from `matched`
\* (search.py 94-96), the keys are sorted, the list cut and projected
\* (search.py 98-109, fts.py 94-105)
Return(p) ==
    LET pr == procs[p]
        dict == IF pr.impl = "FTSFilter" THEN MergeRows(<<>>, pr.matched, 1000)
                ELSE pr.dict
        keys == SortedFtsKeys(DOMAIN dict, pr.ascending)
        sorted == Truncate([n \in DOMAIN keys |-> dict[keys[n]]], pr.max_results)
    IN  /\ pr.pc = "query"
        /\ NextStrategy(pr) = 0
        /\ procs' = [procs EXCEPT ![p] =
                [pr EXCEPT !.pc = "idle", !.returned = TRUE, !.dict = dict,
                           !.keys = SubSeq(keys, 1, Len(sorted)),
                           !.results = sorted,
                           !.output = Project(sorted, pr.include_score)]]
        /\ UNCHANGED <<ruleCall, rankCall, iterData, iterCache, iterCall, fs>>

(***************************************************************************)
(* The indexed engine called by one process (SpecFTS) and by two           *)
(* processes at once (SpecRace)                                            *)
(***************************************************************************)
FtsDatasets ==
    { << <<"a">> >>, << <<"A">> >>, << <<"b", " ">> >>,
      << <<"a">>, <<"A">> >>, << <<" ">>, <<"a">> >> }

FtsQueries == { <<"a">>, <<"a", " ", "b">> }

FtsArgs ==
    [impl : {"FTSFilter"}, query : FtsQueries, key : KeyFns,
     match_on : {MATCH_ALL, MATCH_SUBSTRING, MATCH_STARTSWITH + MATCH_ATOM},
     ascending : BOOLEAN, max_results : MaxResults, include_score : BOOLEAN]
    \cup
    [impl : {"fts"}, query : FtsQueries, key : KeyFns,
     match_on : {fts_MATCH_ALL, fts_MATCH_SUBSTRING,
                 fts_MATCH_STARTSWITH + fts_MATCH_ATOM},
     ascending : BOOLEAN, max_results : MaxResults, include_score : BOOLEAN]

IterUnused ==
    /\ IterUnusedData
    /\ ruleCall = NoCall
    /\ rankCall = NoCall

InitFTS ==
    /\ IterUnused
    /\ fs = <<>>
    /\ \E data \in FtsDatasets : procs = [p \in {1} |-> NewProc(data)]

\* one call per behaviour
NextFTS ==
    \/ \E p \in DOMAIN procs, a \in FtsArgs : ~procs[p].returned /\ Call(p, a)
    \/ \E p \in DOMAIN procs : CheckExists(p)
    \/ \E p \in DOMAIN procs : BuildConnect(p)
    \/ \E p \in DOMAIN procs : BuildCreate(p)
    \/ \E p \in DOMAIN procs : BuildInsert(p)
    \/ \E p \in DOMAIN procs : BuildCommit(p)
    \/ \E p \in DOMAIN procs : QueryStep(p, StatsPool, TRUE)
    \/ \E p \in DOMAIN procs : Return(p)

SpecFTS == InitFTS /\ [][NextFTS]_vars

\* two processes: the datasets include two orders of one item set and two
\* item sets with the same lower-cased keys; the provider matches every row
\* it can see
RaceDatasets ==
    { << <<"a">> >>, << <<"A">> >>, << <<"a">>, <<"A">> >>, << <<"A">>, <<"a">> >> }

RaceArgs ==
    [impl : {"FTSFilter"}, query : {<<"a">>}, key : KeyFns,
     match_on : {MATCH_ATOM}, ascending : {TRUE}, max_results : {0},
     include_score : {TRUE}]
    \cup
    [impl : {"fts"}, query : {<<"a">>}, key : KeyFns,
     match_on : {fts_MATCH_ATOM}, ascending : {TRUE}, max_results : {0},
     include_score : {TRUE}]

InitRace ==
    /\ IterUnused
    /\ fs = <<>>
    /\ \E d1 \in RaceDatasets, d2 \in RaceDatasets :
          procs = [p \in {1, 2} |-> IF p = 1 THEN NewProc(d1) ELSE NewProc(d2)]

NextRace ==
    \/ \E p \in DOMAIN procs, a \in RaceArgs : Call(p, a)
    \/ \E p \in DOMAIN procs : CheckExists(p)
    \/ \E p \in DOMAIN procs : BuildConnect(p)
    \/ \E p \in DOMAIN procs : BuildCreate(p)
    \/ \E p \in DOMAIN procs : BuildInsert(p)
    \/ \E p \in DOMAIN procs : BuildCommit(p)
    \/ \E p \in DOMAIN procs : QueryStep(p, {StatsHalf}, FALSE)
    \/ \E p \in DOMAIN procs : Return(p)

SpecRace == InitRace /\ [][NextRace]_vars

(***************************************************************************)
(* Claims about the indexed engine                                         *)
(***************************************************************************)
\* C1: in any sequence of indexed-engine filter calls by one process on
\* datasets of one fingerprint, the index builder runs at most once; later
\* calls find the index file and reuse it.
C1_BuilderRunsAtMostOnce == \A p \in DOMAIN procs : ~procs[p].rebuilt

\* C1 witness: a process that ran the builder for a location in one call and
\* found the file there in a later call, which has returned.
C1_Witness ==
    \E p \in DOMAIN procs :
        /\ procs[p].pc = "idle"
        /\ procs[p].returned
        /\ procs[p].database \in procs[p].built
        /\ procs[p].database \in procs[p].reused

\* the scale a form applies to the scores it returns
ScoreScale(impl) == IF impl = "FTSFilter" THEN 1000 ELSE 100

\* the first row with this id among the rows the strategies returned, in
\* the order the strategies ran
FirstSeen(matched, id) ==
    matched[CHOOSE j \in DOMAIN matched :
                /\ matched[j][1] = id
                /\ \A h \in DOMAIN matched : matched[h][1] = id => j <= h]

\* C2: in the output of the indexed engine's filter each row id appears at
\* most once, and an id returned by several strategies carries the score and
\* rule of the first strategy that returned it (SUBSTRING, STARTSWITH, ATOM).
C2_FirstStrategyWins ==
    \A p \in DOMAIN procs :
        procs[p].returned =>
            LET pr == procs[p]
            IN  /\ \A m, n \in DOMAIN pr.keys :
                      m # n => pr.keys[m][2] # pr.keys[n][2]
                /\ \A n \in DOMAIN pr.keys :
                      LET first == FirstSeen(pr.matched, pr.keys[n][2])
                      IN  pr.results[n] =
                              <<first[3],
                                RMul(first[2], RInt(ScoreScale(pr.impl))),
                                first[4]>>

\* the set of distinct search keys extracted from a process's dataset
KeySet(pr) == {strip(key(pr.key, pr.data[i])) : i \in DOMAIN pr.data}

C4_RaceErrorSwallowed ==
    \A p \in DOMAIN procs :
        ~(procs[p].pc = "raised" /\ procs[p].error = "table filter already exists")

\* C5: the build is not synchronised: two processes can both pass the
\* existence check and start the builder, and a process that queries the
\* index while another is still building it sees a partially built index
\* (fewer rows than the builder's dataset yields, when it yields any).
C5_ReaderDuringBuildSeesPartialIndex ==
    \A p \in DOMAIN procs :
        \A o \in procs[p].partial :
            o.seen \subseteq o.full /\ (o.full # {} => o.seen # o.full)

\* C5 witness: both processes have started the builder for one location, and
\* one of them has since queried that index before the other's commit.
C5_Witness ==
    \E p, q \in DOMAIN procs :
        /\ p # q
        /\ procs[p].database = procs[q].database
        /\ procs[p].database \in procs[p].built
        /\ procs[q].database \in procs[q].built
        /\ procs[q].pc = "insert"
        /\ procs[p].partial # {}
        /\ procs[p].matched = <<>>
        /\ procs[p].sent # <<>>

\* C9: every result returned with include_score by either engine has a score
\* above zero and carries a rule.
C9_NoZeroScore ==
    /\ (iterCall.called /\ iterCall.include_score) =>
          \A n \in DOMAIN iterCall.returned :
              /\ RLess(RZero, iterCall.returned[n][2])
              /\ iterCall.returned[n][3] # None
    /\ \A p \in DOMAIN procs :
          (procs[p].returned /\ procs[p].include_score) =>
              \A n \in DOMAIN procs[p].output :
                  /\ RLess(RZero, procs[p].output[n][2])
                  /\ procs[p].output[n][3] # None

\* C10: every element the indexed engine's filter returns (the first
\* component of every triple when include_score is set) is one of the
\* caller's items.
C10_ReturnsCallersItems ==
    \A p \in DOMAIN procs :
        procs[p].returned =>
            \A n \in DOMAIN procs[p].output :
                (IF procs[p].include_score THEN procs[p].output[n][1]
                 ELSE procs[p].output[n]) \in Range(procs[p].data)

\* the enabled strategies of a call, in the order SUBSTRING, STARTSWITH, ATOM
EnabledStrategies(pr) ==
    SelectSeq(<<1, 2, 3>>, LAMBDA n : HasFlag(pr.match_on, Strategies(pr.impl)[n]))

\* C14: in both indexed implementations a call that returns has issued
\* exactly one query per enabled strategy, in the order SUBSTRING,
\* STARTSWITH, ATOM, each in its own strategy's form (every word suffixed
\* with '*'; '^' and the joined words; the joined words), and every row taken
\* is tagged with an enabled strategy.
C14_OneQueryPerStrategyInItsForm ==
    \A p \in DOMAIN procs :
        procs[p].returned =>
            LET pr == procs[p]
                enabled == EnabledStrategies(pr)
            IN  /\ pr.sent = [k \in DOMAIN enabled |->
                                 StrategyQuery(enabled[k], Words(pr.query))]
                /\ \A j \in DOMAIN pr.matched :
                      \E k \in DOMAIN enabled :
                          pr.matched[j][4] = Strategies(pr.impl)[enabled[k]]

====
